---- MODULE Spec2Model ----
(***************************************************************************)
(* The asynchronous job manager of docling-rag-server.py: the in-memory    *)
(* job_store, the background execution process_chunking_job (a plain def,  *)
(* so FastAPI runs it on a worker thread after the response is sent), and  *)
(* the handlers POST /convert-chunked-async, GET /job/{id} and             *)
(* DELETE /job/{id} (async defs, run one at a time on the event loop).     *)
(*                                                                         *)
(* A worker thread can be preempted between any two statements, so every   *)
(* statement of process_chunking_job that touches job_store or the disk is *)
(* a step of its own, labelled by its source line (l435 is line 435).  The *)
(* handlers have no await except the upload read of the POST handler, so   *)
(* no two handlers interleave, but the worker threads interleave with each *)
(* statement of a handler; copy.deepcopy is a Python-level loop over the   *)
(* record's keys and is interleaved key by key.                            *)
(***************************************************************************)
EXTENDS Integers, Sequences, FiniteSets, TLC

\* ------------------------------------------------------------------ bounds

\* Number of GET /job/{id} and DELETE /job/{id} requests issued in a run.
MaxRequests == 3

\* Number of GET and DELETE requests issued in a run with two jobs.
MaxPairRequests == 1

\* Chunks of a document, provenance items of a chunk, and the highest page_no.
MaxChunks == 2
MaxProvs == 2
MaxPage == 3

\* Length of the mixed file lists uploaded to POST /convert-multiple.
MaxBatch == 2

\* The job identifiers a client can ask for, and among them the values uuid4
\* (line 649) returns in a run: "j2" is an id no upload was ever given.
JobIds == {"j1", "j2"}
Uuids == {"j1"}
NoId == "none"

\* ------------------------------------------------------------- constants

NULL == "null"

\* Upload extensions a request may carry: three of the supported ones (line
\* 61), one of them also in upper case, and one that is not supported.
SUPPORTED_EXTENSIONS == {".pdf", ".docx", ".xlsx"}
Extensions == SUPPORTED_EXTENSIONS \cup {".PDF", ".exe"}

\* str.lower() on the suffixes above.
Lower(ext) == IF ext = ".PDF" THEN ".pdf" ELSE ext

\* Supported with the membership test left out.
Supported_Any(ext) == TRUE

\* Path(file.filename).suffix.lower() in SUPPORTED_EXTENSIONS (lines 148-149,
\* 224-225, 639-640 and 815-818).
Supported(ext) == Lower(ext) \in SUPPORTED_EXTENSIONS

\* A file name is its stem and its suffix, as pathlib splits it.
Stem(filename) == filename[1]
Suffix(filename) == filename[2]

\* The files a client uploads to the synchronous endpoints: the name, and
\* whether docling converts the content or raises on it.
UploadFiles ==
    {[filename |-> <<"a", ".pdf">>,  converts |-> TRUE],
     [filename |-> <<"a", ".xlsx">>, converts |-> TRUE],
     [filename |-> <<"b", ".PDF">>,  converts |-> FALSE],
     [filename |-> <<"c", ".exe">>,  converts |-> FALSE]}

\* The most files POST /convert-multiple takes (line 806).
MAX_FILES == 10

\* The values of the query parameter output_format (line 795).
OutputFormats == {"zip", "json"}

\* The uploads of POST /convert-multiple: every list of up to MaxBatch files,
\* and the lists of MAX_FILES and MAX_FILES + 1 copies of one file.
BatchUploads ==
    UNION {[1..n -> UploadFiles] : n \in 1..MaxBatch} \cup
    {[i \in 1..n |-> f] : n \in {MAX_FILES, MAX_FILES + 1}, f \in UploadFiles}

HTTP_OK == 200
HTTP_BAD_REQUEST == 400
HTTP_NOT_FOUND == 404
HTTP_SERVER_ERROR == 500

\* The messages written to job["message"], by the line that writes them.
MSG_QUEUED == "queued"
MSG_CONVERTING == "converting"
MSG_CHUNKING == "chunking"
MSG_METADATA == "metadata"
MSG_DONE == "done"

VARIABLES
    job_store,  \* job_id -> record; its domain is the set of keys of the dict
    disk,       \* the job ids whose temp_dir exists on disk
    issued,     \* the job ids uuid4 has returned so far
    uploads,    \* POST handlers suspended at "await file.read()": id -> extension
    tasks,      \* per job id, the position of its process_chunking_job call
    req,        \* the GET or DELETE handler running on the event loop
    resp,       \* the last HTTP response sent
    polled,     \* per job id, the body of the last 200 response of GET /job/{id}
    nreq,       \* GET and DELETE requests issued so far
    up,         \* the /convert, /convert-chunked or /convert-multiple handler
    meta        \* one document's chunks and the chunk records built from them

vars ==
    <<job_store, disk, issued, uploads, tasks, req, resp, polled, nreq, up, meta>>

\* ------------------------------------------------------------ job records

\* NewRecord with the record created as already started.
NewRecord_Started(j) ==
    [status |-> "processing", progress |-> 0, message |-> "queued",
     temp_dir |-> j, result |-> "null", completed_at |-> "null",
     error |-> "null", failed_at |-> "null"]

\* The record line 662 inserts (the key temp_dir holds the job's directory,
\* named here after the job).  result, error, completed_at and failed_at are
\* keys the record does not have yet: NULL stands for an absent key.
NewRecord(j) ==
    [status |-> "queued", progress |-> 0, message |-> MSG_QUEUED,
     temp_dir |-> j, result |-> NULL, completed_at |-> NULL,
     error |-> NULL, failed_at |-> NULL]

InStore(j) == j \in DOMAIN job_store

\* The mutable keys of a record in the order the dict iterates them: the keys
\* of line 662 first, then the keys added later, in insertion order (the try
\* body adds result then completed_at, the except block error then failed_at).
\* The keys that never change after creation are left out.
OptionalKeys == <<"result", "completed_at", "error", "failed_at">>

Keys(rec) ==
    <<"status", "progress", "message">> \o
    SelectSeq(OptionalKeys, LAMBDA k : rec[k] # NULL)

\* A job id whose process_chunking_job has not been scheduled.  e is the
\* exception the except block caught (str(e)), pending tells that an exception
\* is propagating through the finally block.
IdleTask == [pc |-> "none", e |-> NULL, pending |-> FALSE]
\* The dict copy.deepcopy starts from (y = {} in copy._deepcopy_dict): no key
\* copied yet.
EmptyCopy == [status |-> NULL, progress |-> 0, message |-> NULL,
              temp_dir |-> NoId, result |-> NULL, completed_at |-> NULL,
              error |-> NULL, failed_at |-> NULL]
\* No handler is running on the event loop.
IdleReq == [op |-> "idle", id |-> NoId, pc |-> "idle", size |-> 0, pos |-> 0,
            job |-> EmptyCopy]
\* No GET /job/{id} has answered 200 for the job yet.
NoPoll == [status |-> "none", progress |-> 0, message |-> NULL,
           result |-> NULL, completed_at |-> NULL,
           error |-> NULL, failed_at |-> NULL]
NoResp == [op |-> "none", id |-> NoId, code |-> 0]
\* No document has been chunked.
NoMeta == [ext |-> "none", contextualize |-> FALSE, workbook |-> << >>,
           opened |-> FALSE, chunks |-> << >>, sync |-> << >>, async |-> << >>,
           done |-> {}]
\* No /convert, /convert-chunked or /convert-multiple request was made yet.
\* dirs counts the temporary directories the request created and dir tells
\* whether its directory is on disk, stored counts the files it opened there,
\* calls the calls of doc_converter.convert it made; results and converted
\* are the handler's locals results and converted_files (its keys), code and
\* success the status code and the "success" field of the response.
IdleUp == [ep |-> "none", pc |-> "idle", files |-> << >>, fmt |-> "none",
           i |-> 0, dirs |-> 0, dir |-> FALSE, stored |-> 0, calls |-> 0,
           results |-> << >>, converted |-> {}, code |-> 0, success |-> FALSE]

Init ==
    /\ job_store = << >>
    /\ disk = {}
    /\ issued = {}
    /\ uploads = << >>
    /\ tasks = [j \in JobIds |-> IdleTask]
    /\ req = IdleReq
    /\ resp = NoResp
    /\ polled = [j \in JobIds |-> NoPoll]
    /\ nreq = 0
    /\ up = IdleUp
    /\ meta = NoMeta

\* --------------------------------------------- POST /convert-chunked-async

Send(op, j, code) == resp' = [op |-> op, id |-> j, code |-> code]

\* Lines 639-646: an extension outside SUPPORTED_EXTENSIONS is rejected before
\* anything is allocated.
PostReject(ext) ==
    /\ req = IdleReq
    /\ ~Supported(ext)
    /\ Send("POST", NoId, HTTP_BAD_REQUEST)
    /\ UNCHANGED <<job_store, disk, issued, uploads, tasks, req, polled, nreq, up, meta>>

\* Lines 639-658: a supported upload gets a fresh uuid4 and a fresh temp dir,
\* and the handler suspends at "await file.read()".
\* PostStartOf with a uuid4 that can return an id it has returned before.
PostStartOf_Reissue(ids, j, ext) ==
    /\ req = IdleReq
    /\ Supported(ext)
    /\ j \in ids
    /\ j \notin DOMAIN uploads
    /\ issued' = issued \cup {j}
    /\ disk' = disk \cup {j}
    /\ uploads' = uploads @@ (j :> ext)
    /\ UNCHANGED <<job_store, tasks, req, resp, polled, nreq, up, meta>>

\* ids are the values uuid4 can return.
PostStartOf(ids, j, ext) ==
    /\ req = IdleReq
    /\ Supported(ext)
    /\ j \in ids \ issued
    /\ issued' = issued \cup {j}
    /\ disk' = disk \cup {j}
    /\ uploads' = uploads @@ (j :> ext)
    /\ UNCHANGED <<job_store, tasks, req, resp, polled, nreq, up, meta>>

PostStart(j, ext) == PostStartOf(Uuids, j, ext)

Without(f, j) == [k \in DOMAIN f \ {j} |-> f[k]]

\* Lines 659-694: the upload is written, the record inserted with status
\* queued, one process_chunking_job call handed to BackgroundTasks (it starts
\* once the response is sent) and the job id returned.
PostAccept(j) ==
    /\ req = IdleReq
    /\ j \in DOMAIN uploads
    /\ job_store' = job_store @@ (j :> NewRecord(j))
    /\ tasks' = [tasks EXCEPT ![j] = [IdleTask EXCEPT !.pc = "l435"]]
    /\ uploads' = Without(uploads, j)
    /\ Send("POST", j, HTTP_OK)
    /\ UNCHANGED <<disk, issued, req, polled, nreq, up, meta>>

\* PostFail without the shutil.rmtree of line 700.
PostFail_Leak(j) ==
    /\ req = IdleReq
    /\ j \in DOMAIN uploads
    /\ uploads' = Without(uploads, j)
    /\ Send("POST", j, HTTP_SERVER_ERROR)
    /\ UNCHANGED <<job_store, disk, issued, tasks, req, polled, nreq, up, meta>>

\* Lines 696-702: writing the upload raised; the temp dir is removed and the
\* request answered 500.  No record, no background task.
PostFail(j) ==
    /\ req = IdleReq
    /\ j \in DOMAIN uploads
    /\ disk' = disk \ {j}
    /\ uploads' = Without(uploads, j)
    /\ Send("POST", j, HTTP_SERVER_ERROR)
    /\ UNCHANGED <<job_store, issued, tasks, req, polled, nreq, up, meta>>

\* ------------------------------------------------- process_chunking_job

\* Progress with the value of line 474 lower than the one written before it.
Progress_Regress ==
    [l436 |-> 10, l440 |-> 30, l447 |-> 40, l474 |-> 20, l480 |-> 80,
     l598 |-> 100]

\* The progress percentages the try body writes, by line.
Progress ==
    [l436 |-> 10, l440 |-> 30, l447 |-> 40, l474 |-> 60, l480 |-> 80,
     l598 |-> 100]

\* TryWrites with the last two checkpoints in the other order: status
\* completed first, progress 100 after it.
TryWrites_StatusFirst ==
    [l435 |-> [key |-> "status",       val |-> "processing",   next |-> "l436"],
     l436 |-> [key |-> "progress",     val |-> Progress.l436,  next |-> "l440"],
     l440 |-> [key |-> "progress",     val |-> Progress.l440,  next |-> "l441"],
     l441 |-> [key |-> "message",      val |-> MSG_CONVERTING, next |-> "l442"],
     l447 |-> [key |-> "progress",     val |-> Progress.l447,  next |-> "l448"],
     l474 |-> [key |-> "progress",     val |-> Progress.l474,  next |-> "l475"],
     l475 |-> [key |-> "message",      val |-> MSG_CHUNKING,   next |-> "l476"],
     l480 |-> [key |-> "progress",     val |-> Progress.l480,  next |-> "l481"],
     l481 |-> [key |-> "message",      val |-> MSG_METADATA,   next |-> "l482"],
     l598 |-> [key |-> "status",       val |-> "completed",    next |-> "l599"],
     l599 |-> [key |-> "progress",     val |-> Progress.l598,  next |-> "l600"],
     l600 |-> [key |-> "message",      val |-> MSG_DONE,       next |-> "l601"],
     l601 |-> [key |-> "result",       val |-> "result",       next |-> "l602"],
     l602 |-> [key |-> "completed_at", val |-> "now",          next |-> "l614"]]

\* The statements of the try body (lines 435-602) that assign one key of
\* job_store[job_id]: the line, the key, the value and the line that follows.
TryWrites ==
    [l435 |-> [key |-> "status",       val |-> "processing",   next |-> "l436"],
     l436 |-> [key |-> "progress",     val |-> Progress.l436,  next |-> "l440"],
     l440 |-> [key |-> "progress",     val |-> Progress.l440,  next |-> "l441"],
     l441 |-> [key |-> "message",      val |-> MSG_CONVERTING, next |-> "l442"],
     l447 |-> [key |-> "progress",     val |-> Progress.l447,  next |-> "l448"],
     l474 |-> [key |-> "progress",     val |-> Progress.l474,  next |-> "l475"],
     l475 |-> [key |-> "message",      val |-> MSG_CHUNKING,   next |-> "l476"],
     l480 |-> [key |-> "progress",     val |-> Progress.l480,  next |-> "l481"],
     l481 |-> [key |-> "message",      val |-> MSG_METADATA,   next |-> "l482"],
     l598 |-> [key |-> "progress",     val |-> Progress.l598,  next |-> "l599"],
     l599 |-> [key |-> "status",       val |-> "completed",    next |-> "l600"],
     l600 |-> [key |-> "message",      val |-> MSG_DONE,       next |-> "l601"],
     l601 |-> [key |-> "result",       val |-> "result",       next |-> "l602"],
     l602 |-> [key |-> "completed_at", val |-> "now",          next |-> "l614"]]

\* ExceptWrites storing a fixed text instead of str(e).
ExceptWrites_Generic(e) ==
    [l607 |-> [key |-> "status",    val |-> "failed", next |-> "l608"],
     l608 |-> [key |-> "progress",  val |-> 0,        next |-> "l609"],
     l609 |-> [key |-> "error",     val |-> "error",  next |-> "l610"],
     l610 |-> [key |-> "failed_at", val |-> "now",    next |-> "l614"]]

\* The statements of the except block (lines 607-610); line 609 stores str(e).
ExceptWrites(e) ==
    [l607 |-> [key |-> "status",    val |-> "failed", next |-> "l608"],
     l608 |-> [key |-> "progress",  val |-> 0,        next |-> "l609"],
     l609 |-> [key |-> "error",     val |-> e,        next |-> "l610"],
     l610 |-> [key |-> "failed_at", val |-> "now",    next |-> "l614"]]

\* TryCalls with a chunker whose return leads back to line 474.
TryCalls_Loop ==
    [l442 |-> [raises |-> "ConversionError", next |-> "l447"],
     l448 |-> [raises |-> "TokenizerError",  next |-> "l474"],
     l476 |-> [raises |-> "ChunkingError",   next |-> "l474"],
     l482 |-> [raises |-> "MetadataError",   next |-> "l598"]]

\* The calls of the try body that can raise, with what they raise and the line
\* that follows them: doc_converter.convert (442), the custom tokenizer and
\* chunker (448-459), active_chunker.chunk (476) and the assembly of the chunk
\* records and of result_data (482-595).
TryCalls ==
    [l442 |-> [raises |-> "ConversionError", next |-> "l447"],
     l448 |-> [raises |-> "TokenizerError",  next |-> "l474"],
     l476 |-> [raises |-> "ChunkingError",   next |-> "l480"],
     l482 |-> [raises |-> "MetadataError",   next |-> "l598"]]

\* The line at which the try body opens the uploaded file, whatever its
\* extension: doc_converter.convert(file_path).
ReadsFile(pc) == pc = "l442"

Goto(j, pc) == tasks' = [tasks EXCEPT ![j].pc = pc]

\* An exception raised in the try body is caught at line 605.
Caught(j, e) == tasks' = [tasks EXCEPT ![j].pc = "l607", ![j].e = e]

\* SetKey assigning the key in every record of the store.
SetKey_All(j, w) ==
    job_store' = [k \in DOMAIN job_store |-> [job_store[k] EXCEPT ![w.key] = w.val]]

\* job_store[job_id][key] = val: KeyError when the record is gone.
SetKey(j, w) == job_store' = [job_store EXCEPT ![j][w.key] = w.val]

\* TryWrite with an assignment that inserts the record again when it is gone.
TryWrite_Recreate(j) ==
    /\ tasks[j].pc \in DOMAIN TryWrites
    /\ LET w == TryWrites[tasks[j].pc] IN
         /\ job_store' = IF InStore(j)
                            THEN [job_store EXCEPT ![j][w.key] = w.val]
                            ELSE job_store @@ (j :> [NewRecord(j) EXCEPT ![w.key] = w.val])
         /\ Goto(j, w.next)
    /\ UNCHANGED <<disk, issued, uploads, req, resp, polled, nreq, up, meta>>

\* One assignment of the try body.
TryWrite(j) ==
    /\ tasks[j].pc \in DOMAIN TryWrites
    /\ LET w == TryWrites[tasks[j].pc] IN
         IF InStore(j)
           THEN SetKey(j, w) /\ Goto(j, w.next)
           ELSE Caught(j, "KeyError") /\ UNCHANGED job_store
    /\ UNCHANGED <<disk, issued, uploads, req, resp, polled, nreq, up, meta>>

\* One external call of the try body returns.
TryCallReturns(j) ==
    /\ tasks[j].pc \in DOMAIN TryCalls
    /\ ReadsFile(tasks[j].pc) => j \in disk
    /\ Goto(j, TryCalls[tasks[j].pc].next)
    /\ UNCHANGED <<job_store, disk, issued, uploads, req, resp, polled, nreq, up, meta>>

\* One external call of the try body raises: its own failure, or, for
\* convert, the uploaded file being gone.  (A workbook that cannot be opened
\* at line 466 is caught at line 470 and the call goes on.)
TryCallRaises(j) ==
    /\ tasks[j].pc \in DOMAIN TryCalls
    /\ Caught(j, IF ReadsFile(tasks[j].pc) /\ j \notin disk
                   THEN "FileNotFoundError"
                   ELSE TryCalls[tasks[j].pc].raises)
    /\ UNCHANGED <<job_store, disk, issued, uploads, req, resp, polled, nreq, up, meta>>

\* One external call of the try body never returns: the worker thread stays
\* in it.
TryCallHangs(j) ==
    /\ tasks[j].pc \in DOMAIN TryCalls
    /\ Goto(j, "hung")
    /\ UNCHANGED <<job_store, disk, issued, uploads, req, resp, polled, nreq, up, meta>>

\* One assignment of the except block.  A KeyError here is not caught again:
\* it propagates through the finally block.
ExceptWrite(j) ==
    /\ tasks[j].pc \in DOMAIN ExceptWrites(NULL)
    /\ LET w == ExceptWrites(tasks[j].e)[tasks[j].pc] IN
         IF InStore(j)
           THEN SetKey(j, w) /\ Goto(j, w.next)
           ELSE /\ tasks' = [tasks EXCEPT ![j].pc = "l614", ![j].pending = TRUE]
                /\ UNCHANGED job_store
    /\ UNCHANGED <<disk, issued, uploads, req, resp, polled, nreq, up, meta>>

\* The end of the finally block: a pending exception leaves the function.
Leave(j) == Goto(j, IF tasks[j].pending THEN "raised" ELSE "done")

\* Line 614: temp_dir = job_store[job_id].get("temp_dir"); KeyError when the
\* record is gone, and nothing catches it.
FinallyLookup(j) ==
    /\ tasks[j].pc = "l614"
    /\ IF InStore(j) THEN Goto(j, "l615") ELSE Goto(j, "raised")
    /\ UNCHANGED <<job_store, disk, issued, uploads, req, resp, polled, nreq, up, meta>>

\* FinallyExists leaving the function without looking for the directory.
FinallyExists_Skip(j) ==
    /\ tasks[j].pc = "l615"
    /\ Goto(j, IF tasks[j].pending THEN "raised" ELSE "done")
    /\ UNCHANGED <<job_store, disk, issued, uploads, req, resp, polled, nreq, up, meta>>

\* Line 615: os.path.exists(temp_dir).
FinallyExists(j) ==
    /\ tasks[j].pc = "l615"
    /\ IF j \in disk THEN Goto(j, "l618") ELSE Leave(j)
    /\ UNCHANGED <<job_store, disk, issued, uploads, req, resp, polled, nreq, up, meta>>

\* Lines 616-621: shutil.rmtree(temp_dir); the error of removing a directory
\* that is gone is caught at line 620 and logged.
FinallyRmtree(j) ==
    /\ tasks[j].pc = "l618"
    /\ disk' = disk \ {j}
    /\ Leave(j)
    /\ UNCHANGED <<job_store, issued, uploads, req, resp, polled, nreq, up, meta>>

\* Lines 616-621 when shutil.rmtree raises on a directory that exists (a file
\* it may not remove, say): the error is caught at line 620 and logged, and
\* the directory stays.
FinallyRmtreeFails(j) ==
    /\ tasks[j].pc = "l618"
    /\ j \in disk
    /\ Leave(j)
    /\ UNCHANGED <<job_store, disk, issued, uploads, req, resp, polled, nreq, up, meta>>

\* -------------------------------------------------------- GET /job/{id}

\* Lines 723-743: the response built from the copy.  result and completed_at
\* are read only when the copied status is completed, error and failed_at only
\* when it is failed; job.get gives None for a key the copy does not have.
Response(job) ==
    [status |-> job.status, progress |-> job.progress, message |-> job.message,
     result |-> IF job.status = "completed" THEN job.result ELSE NULL,
     completed_at |-> IF job.status = "completed" THEN job.completed_at ELSE NULL,
     error |-> IF job.status = "failed" THEN job.error ELSE NULL,
     failed_at |-> IF job.status = "failed" THEN job.failed_at ELSE NULL]

\* Lines 713-719: an unknown id is answered 404; otherwise deepcopy creates
\* the iterator over the record's items, which remembers the dict's size.
GetStart(j) ==
    /\ req = IdleReq
    /\ nreq < MaxRequests
    /\ nreq' = nreq + 1
    /\ IF InStore(j)
         THEN /\ req' = [op |-> "GET", id |-> j, pc |-> "l719",
                         size |-> Len(Keys(job_store[j])), pos |-> 1,
                         job |-> [EmptyCopy EXCEPT !.temp_dir = j]]
              /\ UNCHANGED resp
         ELSE /\ Send("GET", j, HTTP_NOT_FOUND)
              /\ UNCHANGED req
    /\ UNCHANGED <<job_store, disk, issued, uploads, tasks, polled, up, meta>>

\* Line 719, one round of deepcopy's loop over the items: the iterator raises
\* RuntimeError (answered 500) when the dict's size changed since it was
\* created, copies the next item, or ends the loop, and then the response
\* of lines 723-743 is built from the copy and sent.
GetCopy ==
    /\ req.op = "GET"
    /\ LET rec == job_store[req.id]
           keys == Keys(rec)
       IN  IF Len(keys) # req.size
             THEN /\ Send("GET", req.id, HTTP_SERVER_ERROR)
                  /\ req' = IdleReq
                  /\ UNCHANGED polled
           ELSE IF req.pos <= req.size
             THEN /\ req' = [req EXCEPT !.pos = @ + 1,
                                        !.job[keys[req.pos]] = rec[keys[req.pos]]]
                  /\ UNCHANGED <<resp, polled>>
           ELSE /\ Send("GET", req.id, HTTP_OK)
                /\ polled' = [polled EXCEPT ![req.id] = Response(req.job)]
                /\ req' = IdleReq
    /\ UNCHANGED <<job_store, disk, issued, uploads, tasks, nreq, up, meta>>

\* ----------------------------------------------------- DELETE /job/{id}

\* DeleteStart without the membership test of line 750.
DeleteStart_NoCheck(j) ==
    /\ req = IdleReq
    /\ nreq < MaxRequests
    /\ nreq' = nreq + 1
    /\ req' = [IdleReq EXCEPT !.op = "DELETE", !.id = j, !.pc = "l756"]
    /\ UNCHANGED <<job_store, disk, issued, uploads, tasks, resp, polled, up, meta>>

\* Lines 750-753: an unknown id is answered 404.
DeleteStart(j) ==
    /\ req = IdleReq
    /\ nreq < MaxRequests
    /\ nreq' = nreq + 1
    /\ IF InStore(j)
         THEN /\ req' = [IdleReq EXCEPT !.op = "DELETE", !.id = j, !.pc = "l756"]
              /\ UNCHANGED resp
         ELSE /\ Send("DELETE", j, HTTP_NOT_FOUND)
              /\ UNCHANGED req
    /\ UNCHANGED <<job_store, disk, issued, uploads, tasks, polled, up, meta>>

\* DirExists with the existence check left out.
DirExists_Always(j) == TRUE

\* Line 756: "temp_dir" in job and os.path.exists(job["temp_dir"]).
DirExists(j) == j \in disk

DeleteExists ==
    /\ req.op = "DELETE" /\ req.pc = "l756"
    /\ req' = [req EXCEPT !.pc = IF DirExists(req.id) THEN "l758" ELSE "l762"]
    /\ UNCHANGED <<job_store, disk, issued, uploads, tasks, resp, polled, nreq, up, meta>>

\* Line 758: shutil.rmtree(job["temp_dir"]), outside any try: removing a
\* directory that is gone raises FileNotFoundError, the request is answered
\* 500 and line 762 is not reached.
DeleteRmtree ==
    /\ req.op = "DELETE" /\ req.pc = "l758"
    /\ IF req.id \in disk
         THEN /\ disk' = disk \ {req.id}
              /\ req' = [req EXCEPT !.pc = "l762"]
              /\ UNCHANGED resp
         ELSE /\ Send("DELETE", req.id, HTTP_SERVER_ERROR)
              /\ req' = IdleReq
              /\ UNCHANGED disk
    /\ UNCHANGED <<job_store, issued, uploads, tasks, polled, nreq, up, meta>>

\* Line 758 when shutil.rmtree raises on a directory that exists: nothing
\* catches the error, the request is answered 500 and line 762 is not reached.
DeleteRmtreeFails ==
    /\ req.op = "DELETE" /\ req.pc = "l758"
    /\ req.id \in disk
    /\ Send("DELETE", req.id, HTTP_SERVER_ERROR)
    /\ req' = IdleReq
    /\ UNCHANGED <<job_store, disk, issued, uploads, tasks, polled, nreq, up, meta>>

\* Lines 762-768: del job_store[job_id] and the confirmation.
DeleteRecord ==
    /\ req.op = "DELETE" /\ req.pc = "l762"
    /\ job_store' = Without(job_store, req.id)
    /\ Send("DELETE", req.id, HTTP_OK)
    /\ req' = IdleReq
    /\ UNCHANGED <<disk, issued, uploads, tasks, polled, nreq, up, meta>>

\* ------------------------------------ POST /convert and /convert-chunked

jobvars ==
    <<job_store, disk, issued, uploads, tasks, req, resp, polled, nreq, meta>>

SyncEndpoints == {"/convert", "/convert-chunked"}

\* The event loop is free and no synchronous upload is being handled.
UpFree == req = IdleReq /\ up.pc \in {"idle", "sent"}

NewUp(ep, files, fmt) ==
    [IdleUp EXCEPT !.ep = ep, !.files = files, !.fmt = fmt]

\* Lines 148-154 and 224-230: HTTPException 400, raised before the with
\* statement that creates the temporary directory.
SyncReject(ep, f) ==
    /\ UpFree
    /\ ~Supported(Suffix(f.filename))
    /\ up' = [NewUp(ep, <<f>>, "none") EXCEPT
                 !.pc = "sent", !.code = HTTP_BAD_REQUEST]
    /\ UNCHANGED jobvars

\* Lines 157-162 and 232-237: the temporary directory is created, the upload
\* opened in it, and the handler suspends at "await file.read()".
SyncStart(ep, f) ==
    /\ UpFree
    /\ Supported(Suffix(f.filename))
    /\ up' = [NewUp(ep, <<f>>, "none") EXCEPT
                 !.pc = "read", !.i = 1, !.dirs = 1, !.dir = TRUE, !.stored = 1]
    /\ UNCHANGED jobvars

\* Lines 163-210 and 238-419: doc_converter.convert and what follows it.  An
\* exception is answered 500 by /convert (line 210) and, by /convert-chunked,
\* with a 200 whose body has "success": False (lines 415-419); leaving the
\* with statement removes the directory.
SyncConvert ==
    /\ req = IdleReq
    /\ up.ep \in SyncEndpoints /\ up.pc = "read"
    /\ LET f == up.files[up.i] IN
         up' = [up EXCEPT
                  !.pc = "sent", !.calls = @ + 1, !.dir = FALSE,
                  !.success = f.converts,
                  !.code = IF f.converts \/ up.ep = "/convert-chunked"
                             THEN HTTP_OK ELSE HTTP_SERVER_ERROR]
    /\ UNCHANGED jobvars

\* ------------------------------------------------- POST /convert-multiple

\* LimitExceeded rejecting a request of exactly MAX_FILES files.
LimitExceeded_AtLimit(n) == n >= MAX_FILES

\* Line 806: len(files) > 10.
LimitExceeded(n) == n > MAX_FILES

\* Lines 806-812: more than MAX_FILES files are answered 400; otherwise the
\* temporary directory is created and the loop over the files entered.
BatchStart(files, fmt) ==
    /\ UpFree
    /\ up' = IF LimitExceeded(Len(files))
               THEN [NewUp("/convert-multiple", files, fmt) EXCEPT
                       !.pc = "sent", !.code = HTTP_BAD_REQUEST]
               ELSE [NewUp("/convert-multiple", files, fmt) EXCEPT
                       !.pc = "loop", !.i = 1, !.dirs = 1, !.dir = TRUE]
    /\ UNCHANGED jobvars

InLoop == req = IdleReq /\ up.ep = "/convert-multiple" /\ up.pc = "loop"

Failure(f) == [filename |-> f.filename, success |-> FALSE]

\* Lines 815-824: a file with an unsupported extension gets an entry in
\* results and the loop continues.
BatchSkip ==
    /\ InLoop /\ up.i <= Len(up.files)
    /\ ~Supported(Suffix(up.files[up.i].filename))
    /\ up' = [up EXCEPT !.results = Append(@, Failure(up.files[up.i])),
                        !.i = @ + 1]
    /\ UNCHANGED jobvars

\* Lines 827-829: the file is opened in the temporary directory and the
\* handler suspends at "await file.read()".
BatchStore ==
    /\ InLoop /\ up.i <= Len(up.files)
    /\ Supported(Suffix(up.files[up.i].filename))
    /\ up' = [up EXCEPT !.pc = "read", !.stored = @ + 1]
    /\ UNCHANGED jobvars

\* Lines 830-870: doc_converter.convert; the content is stored under the key
\* "<stem>.md" of converted_files and a success entry appended, or the
\* exception is caught at line 864 and a failure entry appended.
BatchConvert ==
    /\ req = IdleReq
    /\ up.ep = "/convert-multiple" /\ up.pc = "read"
    /\ LET f == up.files[up.i] IN
         up' = IF f.converts
                 THEN [up EXCEPT
                         !.pc = "loop", !.i = @ + 1, !.calls = @ + 1,
                         !.converted = @ \cup {<<Stem(f.filename), ".md">>},
                         !.results = Append(@, [filename |-> f.filename,
                                                success |-> TRUE])]
                 ELSE [up EXCEPT
                         !.pc = "loop", !.i = @ + 1, !.calls = @ + 1,
                         !.results = Append(@, Failure(f))]
    /\ UNCHANGED jobvars

\* Lines 871-901: the with statement is left (the directory removed) and the
\* response built: the JSON body, the archive, or 400 when the archive would
\* be empty.
BatchRespond ==
    /\ InLoop /\ up.i > Len(up.files)
    /\ up' = [up EXCEPT
                 !.pc = "sent", !.dir = FALSE,
                 !.success = up.converted # {},
                 !.code = IF up.fmt = "json" \/ up.converted # {}
                            THEN HTTP_OK ELSE HTTP_BAD_REQUEST]
    /\ UNCHANGED jobvars

\* ------------------------------------------------- chunk records

\* prov.sheet_name of a provenance item that has no such attribute.
NoName == "-"

\* The order sorted() gives the sheet names used below.
Alphabetical == <<"Costs", "Sales">>

\* The sheets of the uploaded workbook (wb.sheetnames), in workbook order.
Workbooks == {<<"Sales">>, <<"Sales", "Costs">>}

\* The provenance items docling attaches to the items of a chunk of a
\* document whose workbook is wb (<< >> when it is not a workbook): without
\* page_no, with a page_no from 0 up, and, for a workbook, with the name of
\* the sheet the item comes from.
ProvItems(wb) ==
    {[has_page |-> FALSE, page_no |-> 0, sheet_name |-> NoName]} \cup
    {[has_page |-> TRUE, page_no |-> p, sheet_name |-> NoName] : p \in 0..MaxPage}
    \cup
    {[has_page |-> TRUE, page_no |-> p, sheet_name |-> wb[p]] : p \in 1..Len(wb)}

\* The chunks active_chunker.chunk can return: a text and the provenance
\* items of chunk.meta.doc_items, in iteration order.
Chunks(wb) ==
    [text : {"text"},
     provs : UNION {[1..n -> ProvItems(wb)] : n \in 0..MaxProvs}]

ChunkLists(wb) == UNION {[1..n -> Chunks(wb)] : n \in 0..MaxChunks}

\* A document to chunk: the lower-cased extension, the contextualize flag,
\* the workbook and whether openpyxl could open it (lines 258-268, 461-471),
\* and the chunks the chunker returns for it.
Documents ==
    [ext : {".pdf", ".docx"}, contextualize : BOOLEAN, workbook : {<< >>},
     opened : {FALSE}, chunks : ChunkLists(<< >>),
     sync : {<< >>}, async : {<< >>}, done : {{}}]
    \cup
    UNION {[ext : {".xlsx"}, contextualize : BOOLEAN, workbook : {wb},
            opened : BOOLEAN, chunks : ChunkLists(wb),
            sync : {<< >>}, async : {<< >>}, done : {{}}] : wb \in Workbooks}

\* excel_sheets: wb.sheetnames, or [] when the file is no workbook or the
\* workbook could not be opened.
ExcelSheets(doc) ==
    IF doc.ext = ".xlsx" /\ doc.opened THEN doc.workbook ELSE << >>

\* page_numbers: the set of the prov.page_no greater than 0.
PageNumbers(chunk) ==
    {chunk.provs[k].page_no :
       k \in {n \in DOMAIN chunk.provs :
                chunk.provs[n].has_page /\ chunk.provs[n].page_no > 0}}

\* bbox_data: one entry per provenance item with a page_no greater than 0,
\* in iteration order (the page of each entry).
BboxData(chunk) ==
    LET paged == SelectSeq(chunk.provs,
                           LAMBDA p : p.has_page /\ p.page_no > 0)
    IN  [k \in 1..Len(paged) |-> paged[k].page_no]

\* sheet_names: the set of the prov.sheet_name present.
ProvSheetNames(chunk) ==
    {chunk.provs[k].sheet_name :
       k \in {n \in DOMAIN chunk.provs : chunk.provs[n].sheet_name # NoName}}

\* sorted(list(page_numbers)).
RECURSIVE SortedNums(_)
SortedNums(S) ==
    IF S = {} THEN << >>
    ELSE LET m == CHOOSE x \in S : \A y \in S : x <= y
         IN  <<m>> \o SortedNums(S \ {m})

\* sorted(list(sheet_names)).
SortedNames(S) == SelectSeq(Alphabetical, LAMBDA n : n \in S)

\* matched_sheets: excel_sheets[page_no - 1] for each page_no, ascending, that
\* is not beyond the last sheet.
MatchedSheets(excel_sheets, page_numbers) ==
    LET ps == SelectSeq(SortedNums(page_numbers),
                        LAMBDA p : p <= Len(excel_sheets))
    IN  [k \in 1..Len(ps) |-> excel_sheets[ps[k]]]

\* Pages giving a workbook the page list of a paged document.
Pages_Paged(ext, page_numbers) == SortedNums(page_numbers)

\* chunk_info["pages"] and chunk_info["page_info"].
Pages(ext, page_numbers) ==
    IF ext = ".xlsx" THEN << >> ELSE SortedNums(page_numbers)

\* HasSection without the test of the extension.
HasSection_AnyExtension(ext, page_numbers) == page_numbers = {}

\* The else branch of lines 566-570 (365-369): neither a workbook nor paged.
HasSection(ext, page_numbers) == ext # ".xlsx" /\ page_numbers = {}

\* chunk_info["sheet_names"] of a workbook chunk: the names the provenance
\* gives, else the sheets matched by page_no; << >> when the key is not set.
SheetNamesOf(doc, chunk) ==
    IF doc.ext # ".xlsx" THEN << >>
    ELSE IF ProvSheetNames(chunk) # {} THEN SortedNames(ProvSheetNames(chunk))
    ELSE IF ExcelSheets(doc) # << >> /\ PageNumbers(chunk) # {}
      THEN MatchedSheets(ExcelSheets(doc), PageNumbers(chunk))
    ELSE << >>

\* The keys of chunk_info that depend on the document.
OptionalChunkKeys(doc, chunk) ==
    (IF doc.contextualize
       THEN {"contextualized_text", "contextualized_length"} ELSE {}) \cup
    (IF SheetNamesOf(doc, chunk) # << >> THEN {"sheet_names", "sheet"} ELSE {})
    \cup
    (IF /\ doc.ext = ".xlsx" /\ ProvSheetNames(chunk) = {}
        /\ SheetNamesOf(doc, chunk) # << >>
       THEN {"sheet_index"} ELSE {}) \cup
    (IF HasSection(doc.ext, PageNumbers(chunk)) THEN {"section_index"} ELSE {})

\* Lines 482-575 of process_chunking_job: the record of the i-th chunk.  keys
\* is the set of the keys of chunk_info; a key that is not set has value
\* << >> or 0 here.
ChunkInfo(doc, i) ==
    LET chunk == doc.chunks[i] IN
      [keys |-> {"chunk_id", "text", "text_length", "token_count", "metadata",
                 "page_info", "pages", "bbox_info"}
                \cup OptionalChunkKeys(doc, chunk),
       chunk_id |-> i,
       text |-> chunk.text,
       contextualized_text |->
           IF doc.contextualize THEN <<"context", chunk.text>> ELSE << >>,
       page_info |-> Pages(doc.ext, PageNumbers(chunk)),
       pages |-> Pages(doc.ext, PageNumbers(chunk)),
       sheet_names |-> SheetNamesOf(doc, chunk),
       sheet_index |->
           IF /\ doc.ext = ".xlsx" /\ ProvSheetNames(chunk) = {}
              /\ SheetNamesOf(doc, chunk) # << >>
             THEN SortedNums(PageNumbers(chunk)) ELSE << >>,
       section_index |->
           IF HasSection(doc.ext, PageNumbers(chunk)) THEN i ELSE 0,
       bbox_info |-> BboxData(chunk)]

\* Lines 273-374 of convert_file_chunked: the same statements, and lines
\* 295-297 that add the two debug keys.
ChunkInfoSync(doc, i) ==
    [ChunkInfo(doc, i) EXCEPT
       !.keys = @ \cup {"debug_chunk_attrs", "debug_meta_attrs"}]

othervars ==
    <<job_store, disk, issued, uploads, tasks, req, resp, polled, nreq, up>>

\* The loop of lines 274-374 over the chunks (/convert-chunked).
AssembleSync ==
    /\ "sync" \notin meta.done
    /\ meta' = [meta EXCEPT
                   !.sync = [i \in 1..Len(meta.chunks) |-> ChunkInfoSync(meta, i)],
                   !.done = @ \cup {"sync"}]
    /\ UNCHANGED othervars

\* The loop of lines 483-575 over the chunks (process_chunking_job).
AssembleAsync ==
    /\ "async" \notin meta.done
    /\ meta' = [meta EXCEPT
                   !.async = [i \in 1..Len(meta.chunks) |-> ChunkInfo(meta, i)],
                   !.done = @ \cup {"async"}]
    /\ UNCHANGED othervars

\* ------------------------------------------------------- specification

Next ==
    \/ \E ext \in Extensions : PostReject(ext)
    \/ \E j \in JobIds, ext \in Extensions : PostStart(j, ext)
    \/ \E j \in JobIds : PostAccept(j)
    \/ \E j \in JobIds : PostFail(j)
    \/ \E j \in JobIds : TryWrite(j)
    \/ \E j \in JobIds : TryCallReturns(j)
    \/ \E j \in JobIds : TryCallRaises(j)
    \/ \E j \in JobIds : ExceptWrite(j)
    \/ \E j \in JobIds : FinallyLookup(j)
    \/ \E j \in JobIds : FinallyExists(j)
    \/ \E j \in JobIds : FinallyRmtree(j)
    \/ \E j \in JobIds : GetStart(j)
    \/ GetCopy
    \/ \E j \in JobIds : DeleteStart(j)
    \/ DeleteExists
    \/ DeleteRmtree
    \/ DeleteRecord

Spec == Init /\ [][Next]_vars

\* The job endpoints with a shutil.rmtree that can fail on a directory that
\* exists.
NextFaults ==
    \/ \E ext \in Extensions : PostReject(ext)
    \/ \E j \in JobIds, ext \in Extensions : PostStart(j, ext)
    \/ \E j \in JobIds : PostAccept(j)
    \/ \E j \in JobIds : PostFail(j)
    \/ \E j \in JobIds : TryWrite(j)
    \/ \E j \in JobIds : TryCallReturns(j)
    \/ \E j \in JobIds : TryCallRaises(j)
    \/ \E j \in JobIds : ExceptWrite(j)
    \/ \E j \in JobIds : FinallyLookup(j)
    \/ \E j \in JobIds : FinallyExists(j)
    \/ \E j \in JobIds : FinallyRmtree(j)
    \/ \E j \in JobIds : FinallyRmtreeFails(j)
    \/ \E j \in JobIds : GetStart(j)
    \/ GetCopy
    \/ \E j \in JobIds : DeleteStart(j)
    \/ DeleteExists
    \/ DeleteRmtree
    \/ DeleteRmtreeFails
    \/ DeleteRecord

SpecFaults == Init /\ [][NextFaults]_vars

\* One step of the worker thread that runs process_chunking_job for j.
TaskStep(j) ==
    \/ TryWrite(j)
    \/ TryCallReturns(j)
    \/ TryCallRaises(j)
    \/ TryCallHangs(j)
    \/ ExceptWrite(j)
    \/ FinallyLookup(j)
    \/ FinallyExists(j)
    \/ FinallyRmtree(j)

\* Two jobs side by side: uuid4 can return either id, and at most
\* MaxPairRequests GET and DELETE requests are made.
NextPair ==
    \/ \E ext \in Extensions : PostReject(ext)
    \/ \E j \in JobIds, ext \in Extensions : PostStartOf(JobIds, j, ext)
    \/ \E j \in JobIds : PostAccept(j)
    \/ \E j \in JobIds : PostFail(j)
    \/ \E j \in JobIds : TryWrite(j)
    \/ \E j \in JobIds : TryCallReturns(j)
    \/ \E j \in JobIds : TryCallRaises(j)
    \/ \E j \in JobIds : ExceptWrite(j)
    \/ \E j \in JobIds : FinallyLookup(j)
    \/ \E j \in JobIds : FinallyExists(j)
    \/ \E j \in JobIds : FinallyRmtree(j)
    \/ \E j \in JobIds : nreq < MaxPairRequests /\ GetStart(j)
    \/ GetCopy
    \/ \E j \in JobIds : nreq < MaxPairRequests /\ DeleteStart(j)
    \/ DeleteExists
    \/ DeleteRmtree
    \/ DeleteRecord

SpecPair == Init /\ [][NextPair]_vars

\* Two jobs whose external calls can hang, and DELETE requests; a worker
\* thread that can take a step eventually takes one.
NextLive ==
    \/ \E ext \in Extensions : PostReject(ext)
    \/ \E j \in JobIds, ext \in Extensions : PostStartOf(JobIds, j, ext)
    \/ \E j \in JobIds : PostAccept(j)
    \/ \E j \in JobIds : PostFail(j)
    \/ \E j \in JobIds : TryWrite(j)
    \/ \E j \in JobIds : TryCallReturns(j)
    \/ \E j \in JobIds : TryCallRaises(j)
    \/ \E j \in JobIds : TryCallHangs(j)
    \/ \E j \in JobIds : ExceptWrite(j)
    \/ \E j \in JobIds : FinallyLookup(j)
    \/ \E j \in JobIds : FinallyExists(j)
    \/ \E j \in JobIds : FinallyRmtree(j)
    \/ \E j \in JobIds : nreq < MaxPairRequests /\ DeleteStart(j)
    \/ DeleteExists
    \/ DeleteRmtree
    \/ DeleteRecord

SpecLive ==
    Init /\ [][NextLive]_vars /\ \A j \in JobIds : WF_vars(TaskStep(j))

\* The upload endpoints and the background executions, without GET and DELETE.
NextUploads ==
    \/ \E ext \in Extensions : PostReject(ext)
    \/ \E j \in JobIds, ext \in Extensions : PostStart(j, ext)
    \/ \E j \in JobIds : PostAccept(j)
    \/ \E j \in JobIds : PostFail(j)
    \/ \E j \in JobIds : TryWrite(j)
    \/ \E j \in JobIds : TryCallReturns(j)
    \/ \E j \in JobIds : TryCallRaises(j)
    \/ \E j \in JobIds : ExceptWrite(j)
    \/ \E j \in JobIds : FinallyLookup(j)
    \/ \E j \in JobIds : FinallyExists(j)
    \/ \E j \in JobIds : FinallyRmtree(j)
    \/ \E ep \in SyncEndpoints, f \in UploadFiles : SyncReject(ep, f)
    \/ \E ep \in SyncEndpoints, f \in UploadFiles : SyncStart(ep, f)
    \/ SyncConvert
    \/ \E files \in BatchUploads, fmt \in OutputFormats : BatchStart(files, fmt)
    \/ BatchSkip
    \/ BatchStore
    \/ BatchConvert
    \/ BatchRespond

SpecUploads == Init /\ [][NextUploads]_vars

\* The chunk records of one document, built by both call sites.
InitChunks ==
    /\ job_store = << >>
    /\ disk = {}
    /\ issued = {}
    /\ uploads = << >>
    /\ tasks = [j \in JobIds |-> IdleTask]
    /\ req = IdleReq
    /\ resp = NoResp
    /\ polled = [j \in JobIds |-> NoPoll]
    /\ nreq = 0
    /\ up = IdleUp
    /\ meta \in Documents

NextChunks ==
    \/ AssembleSync
    \/ AssembleAsync

SpecChunks == InitChunks /\ [][NextChunks]_vars

\* ---------------------------------------------------------------- claims

Terminal == {"completed", "failed"}
NonTerminal == {"queued", "processing"}

\* The background execution of j has returned and left no directory.
Finished(j) == tasks[j].pc = "done" /\ j \notin disk

\* C1: a record enters the store with status queued, and from one state to
\* the next the status of a record that stays in the store is unchanged or
\* goes queued -> processing, processing -> completed or processing -> failed;
\* so a completed or failed record keeps its status until DELETE removes it.
C1_StatusLifecycle ==
    [][\A j \in JobIds :
         /\ (~InStore(j) /\ j \in DOMAIN job_store')
              => job_store'[j].status = "queued"
         /\ (InStore(j) /\ j \in DOMAIN job_store')
              => \/ job_store'[j].status = job_store[j].status
                 \/ <<job_store[j].status, job_store'[j].status>> \in
                      {<<"queued", "processing">>, <<"processing", "completed">>,
                       <<"processing", "failed">>}]_vars

\* C1 witness: the execution has returned and its record, still in the store,
\* is in a terminal status.
C1_Witness ==
    \E j \in JobIds :
        InStore(j) /\ tasks[j].pc = "done" /\ job_store[j].status = "failed"

\* C2: every body GET /job/{id} returns has exactly one of result and error
\* when its status is completed or failed, and neither when its status is
\* queued or processing.
C2_ResultXorError ==
    \A j \in JobIds :
        /\ polled[j].status \in Terminal
             => (polled[j].result # NULL) # (polled[j].error # NULL)
        /\ polled[j].status \in NonTerminal
             => polled[j].result = NULL /\ polled[j].error = NULL

\* C3: no body GET /job/{id} returns shows one half of a checkpoint of
\* process_chunking_job: status processing with progress still 0, progress 100
\* with status still processing, or status failed with the progress from
\* before the failure.
C3_NoTornCheckpoint ==
    \A j \in JobIds :
        /\ polled[j].status = "processing" => polled[j].progress \notin {0, 100}
        /\ polled[j].status = "failed" => polled[j].progress = 0

\* C4: of two successive bodies GET /job/{id} returns for a job, both with
\* status queued or processing, the later progress is not lower; and every
\* progress returned is in 0..100.
C4_ProgressMonotoneWhileRunning ==
    [][\A j \in JobIds :
         /\ polled'[j].progress \in 0..100
         /\ (polled[j].status \in NonTerminal /\ polled'[j].status \in NonTerminal)
              => polled'[j].progress >= polled[j].progress]_vars

\* C5 as stated: of two successive bodies GET /job/{id} returns for a job,
\* whatever their status, the later progress is not lower.
C5_ProgressMonotoneForLife ==
    [][\A j \in JobIds :
         polled[j].status # "none"
           => polled'[j].progress >= polled[j].progress]_vars

\* C5 amended: a later poll returns a lower progress than an earlier one only
\* once the job has failed, and then it returns 0, the value the except block
\* writes at line 608; while the job has not failed, and at and after its
\* completion, the progress returned does not decrease.
C5_ProgressDropsOnlyOnFailure ==
    [][\A j \in JobIds :
         (polled[j].status # "none" /\ polled'[j].progress < polled[j].progress)
           => /\ polled'[j].progress = 0
              /\ j \in DOMAIN job_store'
              /\ job_store'[j].status = "failed"
              /\ job_store'[j].progress = 0]_vars

\* C5 witness: two polls were answered, the later one after the failure.
C5_Witness ==
    \E j \in JobIds :
        /\ nreq >= 2 /\ resp = [op |-> "GET", id |-> j, code |-> HTTP_OK]
        /\ polled[j].status = "failed" /\ polled[j].progress = 0

\* C6: shutil.rmtree runs on a job's directory (line 618 of the cleanup, line
\* 758 of DELETE) only while the directory exists, so it is removed once and
\* no removal is attempted on a removed directory; and once the execution has
\* ended and DELETE has answered for the job, the directory is not on disk.
C6_RemovedExactlyOnce ==
    [][\A j \in JobIds :
         /\ (tasks[j].pc = "l618" /\ tasks'[j].pc # "l618") => j \in disk
         /\ (req.op = "DELETE" /\ req.id = j /\ req.pc = "l758" /\ req' # req)
              => j \in disk
         /\ (/\ tasks'[j].pc \in {"done", "raised"}
             /\ resp'.op = "DELETE" /\ resp'.id = j /\ resp'.code # HTTP_NOT_FOUND)
              => j \notin disk']_vars

\* C7: the background execution opens the uploaded file (line 442) only while
\* the job's directory exists.
C7_NoReadAfterRemoval ==
    [][\A j \in JobIds :
         (ReadsFile(tasks[j].pc) /\ tasks'[j].pc # tasks[j].pc) => j \in disk]_vars

\* C8: DELETE /job/{id} is never answered with an error (only 200, or 404 for
\* an unknown id), and no exception raised inside the cleanup of
\* process_chunking_job (the finally block) leaves the function.
C8_CleanupRaceTolerated ==
    /\ resp.op = "DELETE" => resp.code \in {HTTP_OK, HTTP_NOT_FOUND}
    /\ \A j \in JobIds : ~(tasks[j].pc = "raised" /\ ~tasks[j].pending)

\* C9: when the execution of a stored job has returned and its directory is
\* gone, DELETE /job/{id} is accepted, skips the removal at its existence
\* check, removes the record and answers 200.
C9_DeleteAfterFinish ==
    [][\A j \in JobIds :
         (Finished(j) /\ InStore(j)) =>
           /\ (req = IdleReq /\ nreq' = nreq + 1 /\ req' = IdleReq)
                => resp'.id # j
           /\ (req.op = "DELETE" /\ req.id = j /\ req.pc = "l756" /\ req' # req)
                => req'.pc = "l762"
           /\ (req.op = "DELETE" /\ req.id = j /\ req.pc = "l762" /\ req' # req)
                => /\ resp' = [op |-> "DELETE", id |-> j, code |-> HTTP_OK]
                   /\ j \notin DOMAIN job_store']_vars

\* C9 witness: DELETE is at its existence check for a job whose execution has
\* returned and whose directory is gone.
C9_Witness ==
    \E j \in JobIds :
        /\ Finished(j) /\ InStore(j) /\ job_store[j].status = "completed"
        /\ req.op = "DELETE" /\ req.id = j /\ req.pc = "l756"

\* C10: a GET or DELETE request for an id that is not in the store is
\* answered 404, starts no handler step and changes neither the store nor any
\* directory.
C10_UnknownIdNotFound ==
    [][(req = IdleReq /\ nreq' = nreq + 1) =>
         \/ req'.op \in {"GET", "DELETE"} /\ InStore(req'.id)
         \/ /\ req' = IdleReq
            /\ resp'.op \in {"GET", "DELETE"} /\ resp'.code = HTTP_NOT_FOUND
            /\ ~InStore(resp'.id)
            /\ job_store' = job_store /\ disk' = disk]_vars

\* C10 witness: a GET for the id of a deleted job was answered 404.
C10_Witness ==
    /\ resp.op = "GET" /\ resp.code = HTTP_NOT_FOUND
    /\ resp.id \in issued /\ tasks[resp.id].pc # "none"

\* An extension outside SUPPORTED_EXTENSIONS, whatever its case.
Unsupported(ext) == Lower(ext) \notin SUPPORTED_EXTENSIONS

\* The request of the synchronous handler carries an unsupported file.
UnsupportedUpload ==
    /\ up.ep # "none"
    /\ \E k \in 1..Len(up.files) : Unsupported(Suffix(up.files[k].filename))

\* The request was answered 400 with no directory created, no file stored
\* and doc_converter.convert not called.
RejectedUntouched ==
    /\ up.pc = "sent" /\ up.code = HTTP_BAD_REQUEST
    /\ up.dirs = 0 /\ up.stored = 0 /\ up.calls = 0

\* C11 as stated: on every conversion endpoint an upload with an unsupported
\* extension is answered 400 before a directory is created, a record inserted
\* or doc_converter.convert called: no POST /convert-chunked-async handler
\* holds a directory for such an upload, and a /convert, /convert-chunked or
\* /convert-multiple request that carries one is rejected untouched.
C11_RejectedBeforeAllocation ==
    /\ \A j \in DOMAIN uploads : ~Unsupported(uploads[j])
    /\ UnsupportedUpload => RejectedUntouched

\* The files of the /convert-multiple request among the first n that have a
\* supported extension.
SupportedAmong(n) ==
    {k \in 1..n : ~Unsupported(Suffix(up.files[k].filename))}

\* C11 amended: the three single-file endpoints answer 400 before a directory
\* is created, a record inserted or doc_converter.convert called; POST
\* /convert-multiple creates its directory first and does not reject the
\* request: it gives the unsupported file a failed entry in results, and
\* stores and converts the supported files only.
C11_SingleRejectedBatchSkipped ==
    /\ \A j \in DOMAIN uploads : ~Unsupported(uploads[j])
    /\ (UnsupportedUpload /\ up.ep \in SyncEndpoints) => RejectedUntouched
    /\ up.ep = "/convert-multiple" =>
         LET n == Len(up.results) IN
           /\ \A k \in 1..n :
                Unsupported(Suffix(up.files[k].filename))
                  => ~up.results[k].success
           /\ up.calls = Cardinality(SupportedAmong(n))
           /\ up.stored = up.calls + (IF up.pc = "read" THEN 1 ELSE 0)
           /\ up.pc = "read" => up.i \in SupportedAmong(up.i)

\* C11 witness: POST /convert-chunked-async has answered 400, and a
\* /convert-multiple request with one unsupported and one convertible file
\* has been answered 200 after creating its directory and converting one file.
C11_Witness ==
    /\ resp = [op |-> "POST", id |-> NoId, code |-> HTTP_BAD_REQUEST]
    /\ up.ep = "/convert-multiple" /\ up.pc = "sent" /\ UnsupportedUpload
    /\ up.code = HTTP_OK /\ up.dirs = 1 /\ up.calls = 1 /\ Len(up.files) = 2

\* The positions of a process_chunking_job call that has ended: returned, or
\* left by an exception.
Ended == {"done", "raised"}

\* C12 as stated: once the background execution of a job has ended, on the
\* success path and on every failure path, the job's directory is not on
\* disk.
C12_NoWorkspaceAfterEnd ==
    \A j \in JobIds : tasks[j].pc \in Ended => j \notin disk

\* C12 amended: when the background execution of a job ends, the job's
\* directory is not on disk, unless the execution ends at the shutil.rmtree of
\* line 618 raising on the directory (the error caught and logged at lines
\* 620-621): then the directory stays.
C12_NoWorkspaceUnlessRemovalFails ==
    [][\A j \in JobIds :
         (tasks[j].pc \notin Ended /\ tasks'[j].pc \in Ended)
           => \/ j \notin disk'
              \/ tasks[j].pc = "l618" /\ j \in disk]_vars

\* C12 witness: an execution that failed has ended with its record stored and
\* its directory removed, and no DELETE was made.
C12_Witness ==
    \E j \in JobIds :
        /\ tasks[j].pc = "done" /\ tasks[j].e = "ConversionError"
        /\ InStore(j) /\ j \notin disk /\ resp.op # "DELETE"

\* C13: when a call of the try body raised and the execution has returned,
\* the record, if it is still in the store, has status failed, error equal to
\* the text of the exception, failed_at set and neither result nor
\* completed_at, and a body GET /job/{id} returns as failed with an error
\* carries that text; the POST request was answered 200 when the execution
\* was scheduled, and no step of the execution sends a response.
C13_FailureRecorded ==
    [][\A j \in JobIds :
         /\ (/\ tasks'[j].pc = "done" /\ tasks'[j].e # NULL
             /\ j \in DOMAIN job_store')
              => /\ job_store'[j].status = "failed"
                 /\ job_store'[j].error = tasks'[j].e
                 /\ job_store'[j].failed_at # NULL
                 /\ job_store'[j].result = NULL
                 /\ job_store'[j].completed_at = NULL
         /\ (polled'[j].status = "failed" /\ polled'[j].error # NULL)
              => polled'[j].error = tasks'[j].e
         /\ (tasks[j].pc = "none" /\ tasks'[j].pc # "none")
              => resp' = [op |-> "POST", id |-> j, code |-> HTTP_OK]
         /\ (tasks[j].pc # "none" /\ tasks'[j] # tasks[j])
              => resp' = resp]_vars

\* C13 witness: active_chunker.chunk raised, the execution has returned and
\* GET /job/{id} has returned the failure with the text of the exception.
C13_Witness ==
    \E j \in JobIds :
        /\ tasks[j].pc = "done" /\ tasks[j].e = "ChunkingError"
        /\ polled[j].status = "failed" /\ polled[j].error = "ChunkingError"
        /\ polled[j].failed_at # NULL

\* C14: a job whose execution has been scheduled eventually has status
\* completed or failed, unless one of its external calls hangs or its record
\* is deleted, whatever the other job does (hanging in an external call
\* included).
C14_EveryJobTerminates ==
    \A j \in JobIds :
        tasks[j].pc = "l435"
          ~> \/ tasks[j].pc = "hung"
             \/ ~InStore(j)
             \/ job_store[j].status \in Terminal

\* C14 witness: one job hangs in an external call and the other, accepted
\* after it, has completed.
C14_Witness ==
    /\ InStore("j1") /\ InStore("j2")
    /\ tasks["j1"].pc = "hung" /\ job_store["j1"].status = "processing"
    /\ tasks["j2"].pc = "done" /\ job_store["j2"].status = "completed"

\* The step is one of an operation on job a: a step of its execution, of the
\* POST handler that creates it, or of a GET or DELETE handler for its id.
OperatesOn(a) ==
    \/ tasks'[a] # tasks[a]
    \/ a \in issued' \ issued
    \/ (a \in DOMAIN uploads) # (a \in DOMAIN uploads')
    \/ req' # req /\ (req.id = a \/ req'.id = a)
    \/ nreq' # nreq /\ req' = req /\ resp'.id = a

\* The step leaves the record, the directory and the execution of b alone.
Untouched(b) ==
    /\ (b \in DOMAIN job_store') = InStore(b)
    /\ InStore(b) => job_store'[b] = job_store[b]
    /\ (b \in disk') = (b \in disk)
    /\ tasks'[b] = tasks[b]
    /\ polled'[b] = polled[b]

\* C15: a step of an operation on one job leaves the record, the directory,
\* the execution and the last returned body of the other job unchanged; the
\* copy GET /job/{id} builds takes each value from the record of the id asked
\* for, and the body returned for a job is built from that copy.
C15_JobsIsolated ==
    [][/\ \A a \in JobIds : \A b \in JobIds \ {a} :
            OperatesOn(a) => Untouched(b)
       /\ (req.op = "GET" /\ req'.op = "GET") =>
            /\ req'.id = req.id /\ req'.job.temp_dir = req.id
            /\ \A k \in {"status", "progress", "message", "result",
                           "completed_at", "error", "failed_at"} :
                 \/ req'.job[k] = req.job[k]
                 \/ req'.job[k] = job_store[req.id][k]
       /\ \A b \in JobIds :
            polled'[b] # polled[b] =>
              req.op = "GET" /\ req.id = b /\ polled'[b] = Response(req.job)]_vars

\* C15 witness: DELETE has removed the record and the directory of one job
\* while the other job, accepted before, went on to completion.
C15_Witness ==
    /\ resp = [op |-> "DELETE", id |-> "j1", code |-> HTTP_OK]
    /\ ~InStore("j1") /\ "j1" \notin disk
    /\ InStore("j2") /\ job_store["j2"].status = "completed"
    /\ tasks["j2"].pc = "done" /\ "j2" \notin disk

\* C16: the step that inserts a record schedules the execution of that job,
\* which was not scheduled before; an execution is at its first statement only
\* through that step, so none starts a second time and a scheduled one is
\* never unscheduled; and two records in the store never name the same
\* directory.
C16_OneExecutionPerJob ==
    [][/\ \A j \in JobIds :
            /\ (~InStore(j) /\ j \in DOMAIN job_store')
                 => tasks[j].pc = "none" /\ tasks'[j].pc = "l435"
            /\ (tasks'[j].pc = "l435" /\ tasks[j].pc # "l435")
                 => tasks[j].pc = "none" /\ ~InStore(j) /\ j \in DOMAIN job_store'
            /\ tasks[j].pc # "none" => tasks'[j].pc # "none"
       /\ \A a \in DOMAIN job_store' : \A b \in DOMAIN job_store' \ {a} :
            job_store'[a].temp_dir # job_store'[b].temp_dir]_vars

\* C16 witness: the executions of two jobs are running side by side, each in
\* its own directory.
C16_Witness ==
    /\ tasks["j1"].pc = "l482" /\ tasks["j2"].pc = "l442"
    /\ InStore("j1") /\ InStore("j2") /\ disk = {"j1", "j2"}
    /\ job_store["j1"].temp_dir # job_store["j2"].temp_dir

RemovalFailed(j) == ~(j \in disk /\ j \notin disk')

\* C18: a shutil.rmtree that raises is swallowed at both sites: at line 618
\* the execution goes on to its end with the record as the try body or the
\* except block left it, and at line 758 DELETE goes on to line 762, where it
\* removes the record and answers 200.
C18_RemovalFailureSwallowed ==
    [][/\ \A j \in JobIds :
            (tasks[j].pc = "l618" /\ tasks'[j].pc # "l618" /\ RemovalFailed(j))
              => /\ tasks'[j].pc = IF tasks[j].pending THEN "raised" ELSE "done"
                 /\ InStore(j) => /\ j \in DOMAIN job_store'
                                  /\ job_store'[j] = job_store[j]
       /\ (/\ req.op = "DELETE" /\ req.pc = "l758" /\ req' # req
           /\ RemovalFailed(req.id))
            => req'.pc = "l762" /\ resp' = resp]_vars

\* A /convert-multiple request was answered and none of its files was
\* converted.
NoneConvertible ==
    /\ up.ep = "/convert-multiple" /\ up.pc = "sent"
    /\ ~LimitExceeded(Len(up.files))
    /\ \A k \in 1..Len(up.results) : ~up.results[k].success

\* C19: a /convert-multiple request none of whose files was converted is
\* answered 400, with output_format zip and with output_format json.
C19_NoneConvertibleRejected ==
    NoneConvertible => up.code = HTTP_BAD_REQUEST

\* C20: a /convert-multiple request with more than MAX_FILES files is
\* answered 400 with no directory created, no file stored and no conversion
\* made; a request with MAX_FILES files or fewer passes the limit check: it
\* creates its directory, gives every file an entry in results, and is
\* answered 400 only when the output is zip and nothing was converted.
C20_FileLimit ==
    up.ep = "/convert-multiple" =>
        IF Len(up.files) > MAX_FILES
          THEN /\ up.pc = "sent" /\ up.code = HTTP_BAD_REQUEST
               /\ up.dirs = 0 /\ up.stored = 0 /\ up.calls = 0
               /\ up.results = << >>
          ELSE /\ up.dirs = 1
               /\ up.pc = "sent" =>
                    /\ Len(up.results) = Len(up.files)
                    /\ up.code = HTTP_BAD_REQUEST
                         => up.fmt = "zip" /\ up.converted = {}

\* C20 witness: a request with exactly MAX_FILES files was answered 200 after
\* every file was converted.
C20_Witness ==
    /\ up.ep = "/convert-multiple" /\ up.pc = "sent"
    /\ Len(up.files) = MAX_FILES /\ up.calls = MAX_FILES
    /\ up.code = HTTP_OK /\ up.converted # {}

\* C21: for one document (the same file, contextualize flag and chunks) the
\* list of chunk records /convert-chunked builds and the list
\* process_chunking_job builds are equal, key for key and value for value.
C21_SyncAsyncIdentical ==
    meta.done = {"sync", "async"} => meta.sync = meta.async

\* The chunk records built so far, by either call site.
AllRecords ==
    {meta.sync[i] : i \in DOMAIN meta.sync} \cup
    {meta.async[i] : i \in DOMAIN meta.async}

\* The elements of a sequence.
Range(seq) == {seq[k] : k \in DOMAIN seq}

\* C22: every chunk record of an .xlsx document has pages and page_info
\* empty, and every name in its sheet_names is the name of a sheet of the
\* uploaded workbook.
C22_WorkbookChunks ==
    meta.ext = ".xlsx" =>
        \A r \in AllRecords :
            /\ r.pages = << >> /\ r.page_info = << >>
            /\ {"pages", "page_info"} \subseteq r.keys
            /\ ("sheet_names" \in r.keys) = (r.sheet_names # << >>)
            /\ Range(r.sheet_names) \subseteq Range(meta.workbook)

\* C22 witness: a chunk of a two-sheet workbook whose provenance has page
\* numbers 2 and 1 and no sheet name got both sheets, in workbook order.
C22_Witness ==
    /\ meta.ext = ".xlsx" /\ meta.done = {"sync", "async"}
    /\ \E i \in DOMAIN meta.async :
         /\ meta.chunks[i].provs =
              <<[has_page |-> TRUE, page_no |-> 2, sheet_name |-> NoName],
                [has_page |-> TRUE, page_no |-> 1, sheet_name |-> NoName]>>
         /\ meta.async[i].sheet_names = <<"Sales", "Costs">>
         /\ meta.async[i].pages = << >>

\* The chunk's provenance has a page number greater than 0.
Paged(chunk) ==
    \E k \in DOMAIN chunk.provs :
        chunk.provs[k].has_page /\ chunk.provs[k].page_no > 0

\* Ascending without duplicates.
Ascending(seq) == \A k \in 1..(Len(seq) - 1) : seq[k] < seq[k + 1]

\* C23, for the record r of the i-th chunk: r has section_index exactly when
\* the extension is not .xlsx and the provenance has no page number greater
\* than 0, and then section_index is the chunk_id, i, and pages is empty; a
\* record of a paged chunk of another extension has as pages the ascending
\* duplicate-free list of those page numbers.
SectionOrPages(r, i) ==
    LET chunk == meta.chunks[i] IN
      /\ ("section_index" \in r.keys) = (meta.ext # ".xlsx" /\ ~Paged(chunk))
      /\ "section_index" \in r.keys
           => r.section_index = i /\ r.chunk_id = i /\ r.pages = << >>
      /\ (meta.ext # ".xlsx" /\ Paged(chunk))
           => /\ Ascending(r.pages)
              /\ Range(r.pages) =
                   {chunk.provs[k].page_no : k \in DOMAIN chunk.provs} \ {0}

\* C23: every chunk record, of /convert-chunked and of process_chunking_job,
\* carries section_index or pages as the extension and the provenance say.
C23_SectionIndexOrPages ==
    /\ \A i \in DOMAIN meta.sync : SectionOrPages(meta.sync[i], i)
    /\ \A i \in DOMAIN meta.async : SectionOrPages(meta.async[i], i)

\* C23 witness: of two chunks of a .docx document the second, without page
\* numbers, got section_index 2, and the first, whose provenance has page
\* numbers 3 and 1, got pages 1, 3.
C23_Witness ==
    /\ meta.ext = ".docx" /\ meta.done = {"sync", "async"}
    /\ Len(meta.sync) = 2
    /\ meta.sync[2].section_index = 2 /\ "section_index" \in meta.sync[2].keys
    /\ meta.chunks[1].provs =
         <<[has_page |-> TRUE, page_no |-> 3, sheet_name |-> NoName],
           [has_page |-> TRUE, page_no |-> 1, sheet_name |-> NoName]>>
    /\ meta.sync[1].pages = <<1, 3>> /\ "section_index" \notin meta.sync[1].keys

\* The stored record of j has status completed.
Completed(j) == InStore(j) /\ job_store[j].status = "completed"

\* C24: in every state a stored record with status completed has progress
\* 100, and from one state to the next such a record, while it stays in the
\* store, keeps status completed and progress 100.
C24_CompletedAtHundred ==
    [][\A j \in JobIds :
          Completed(j) =>
              /\ job_store[j].progress = Progress.l598
              /\ j \in DOMAIN job_store' =>
                    /\ job_store'[j].status = "completed"
                    /\ job_store'[j].progress = Progress.l598]_vars

\* C24 witness: the execution of j1 has run to its end, the record is
\* completed with its result and progress 100, and a poll has returned it.
C24_Witness ==
    /\ Completed("j1") /\ tasks["j1"].pc = "done"
    /\ job_store["j1"].progress = 100 /\ "completed_at" \in DOMAIN job_store["j1"]
    /\ resp = [op |-> "GET", id |-> "j1", code |-> HTTP_OK]
    /\ polled["j1"].status = "completed" /\ polled["j1"].progress = 100

\* Lines 776-783: the ids GET /jobs lists are the keys of the store.
ListedJobs == DOMAIN job_store

\* The record of j was inserted (its execution was scheduled with it) and is
\* no longer in the store: only line 762 of a DELETE that succeeded removes a
\* record.
Deleted(j) == j \in issued /\ tasks[j].pc # "none" /\ ~InStore(j)

\* C25: once DELETE /job/{id} has removed the record of a job, no step puts
\* the id back into the store, whatever the job's execution still does, so
\* /jobs does not list it; and every request answered for the id from then
\* on is answered 404.
C25_DeletedStaysAbsent ==
    [][\A j \in JobIds :
          Deleted(j) =>
              /\ j \notin DOMAIN job_store' /\ j \notin ListedJobs'
              /\ (nreq' # nreq /\ j = IF req' = IdleReq THEN resp'.id ELSE req'.id)
                    => /\ req' = IdleReq
                       /\ resp'.op \in {"GET", "DELETE"}
                       /\ resp'.code = HTTP_NOT_FOUND]_vars

\* C25 witness: the record was deleted while its execution was in the try
\* body, the execution went on to its end, and a GET made after that was
\* answered 404.
C25_Witness ==
    /\ Deleted("j1") /\ tasks["j1"].pc \in Ended
    /\ tasks["j1"].e = "KeyError"
    /\ resp = [op |-> "GET", id |-> "j1", code |-> HTTP_NOT_FOUND]

\* C26: no execution of process_chunking_job ends with an exception leaving
\* the function: every execution that ends returns.
C26_NoUncaughtException == \A j \in JobIds : tasks[j].pc # "raised"

\* The JSON response of POST /convert-multiple has been sent.
JsonSent ==
    up.ep = "/convert-multiple" /\ up.pc = "sent" /\ up.fmt = "json"
    /\ up.code = HTTP_OK

\* Line 876: "successful_conversions" is len(converted_files).
SuccessfulConversions == Cardinality(up.converted)

\* Lines 880-883: the keys of "converted_content" are those of
\* converted_files.
ConvertedContent == up.converted

\* Lines 854-860: the entries of results with success true.
Succeeded == {k \in DOMAIN up.results : up.results[k].success}

\* C27: in the JSON response of POST /convert-multiple,
\* successful_conversions is the number of entries of results with success
\* true, and converted_content has one entry for each of them.
C27_ConversionsCounted ==
    JsonSent =>
        /\ SuccessfulConversions = Cardinality(Succeeded)
        /\ Cardinality(ConvertedContent) = Cardinality(Succeeded)

====
